---- MODULE Spec2Model ----
(***************************************************************************)
(* Model of yolk (src/yolk.go): a walk over a directory tree that parses   *)
(* every selected Go file, substitutes import-path prefixes, re-formats    *)
(* the file and writes it back behind a backup file.                       *)
(*                                                                         *)
(* Strings are sequences: import paths and aliases are sequences of small  *)
(* naturals (so that they can be ordered the way gofmt orders imports),    *)
(* file paths are sequences of text tokens.  The model is the build where  *)
(* chmodSupported is true (runtime.GOOS # "windows").  Every system call   *)
(* whose error the code receives may fail.                                 *)
(***************************************************************************)
EXTENDS Naturals, Integers, Sequences, FiniteSets, TLC

\* ------------------------------------------------------------------ bounds
MaxImports == 2     \* import specs in the varying source file
MaxRuns == 2        \* executions of the tool in a row (SpecTwice)

\* --------------------------------------------------------------- constants
chmodSupported == TRUE
TempFileMode == 384     \* 0600, the mode ioutil.TempFile creates with
Nil == ""               \* a nil error

\* ----------------------------------------------------------- package strings
HasPrefix(s, prefix) ==
    /\ Len(prefix) <= Len(s)
    /\ SubSeq(s, 1, Len(prefix)) = prefix

HasSuffix(s, suffix) ==
    /\ Len(suffix) <= Len(s)
    /\ SubSeq(s, Len(s) - Len(suffix) + 1, Len(s)) = suffix

Contains(s, substr) ==
    \E i \in 1..(Len(s) + 1) :
        /\ i + Len(substr) - 1 <= Len(s)
        /\ SubSeq(s, i, i + Len(substr) - 1) = substr

TrimPrefix(s, prefix) ==
    IF HasPrefix(s, prefix) THEN SubSeq(s, Len(prefix) + 1, Len(s)) ELSE s

\* lexicographic order of two strings (the order sort.Sort gives imports)
StrLess(s, t) ==
    \E k \in 1..(Len(t)) :
        /\ k <= Len(s) + 1
        /\ SubSeq(s, 1, k - 1) = SubSeq(t, 1, k - 1)
        /\ (k = Len(s) + 1 \/ s[k] < t[k])

\* ------------------------------------------------------------ the file tree
codeSuffixSkipped ==
    << <<"pb", ".go">>, <<"pb", ".gopherjs", ".go">>,
       <<"stateGen", ".go">>, <<"reactGen", ".go">> >>

\* the entries filepath.Walk reports, in its (lexical) order
Tree ==
    << [path |-> <<"d">>,                              isDir |-> TRUE],
       [path |-> <<"d", "/", "a", ".go">>,             isDir |-> FALSE],
       [path |-> <<"d", "/", "c_", "pb", ".go">>,      isDir |-> FALSE],
       [path |-> <<"d", "/", "readme", ".md">>,        isDir |-> FALSE],
       [path |-> <<"d", "/", "vendor">>,               isDir |-> TRUE],
       [path |-> <<"d", "/", "vendor", "/", "v", ".go">>, isDir |-> FALSE],
       [path |-> <<"d", "/", "vendor", "x", ".go">>,   isDir |-> FALSE],
       [path |-> <<"d", "/", "z", ".go">>,             isDir |-> FALSE] >>

Entries == 1..Len(Tree)

\* os.FileInfo.Name(): the last element of the path
RECURSIVE Name(_)
Name(path) ==
    IF path = <<>> \/ path[Len(path)] = "/" THEN <<>>
    ELSE Append(Name(SubSeq(path, 1, Len(path) - 1)), path[Len(path)])

\* ------------------------------------------------------------ file contents
\* A file's bytes: a Go source file is its import specs in source order and
\* whether its layout is gofmt's; other bytes do not parse.
Src(imps, tidy) == [kind |-> "src", imps |-> imps, tidy |-> tidy]
Bad     == [kind |-> "bad",     imps |-> <<>>, tidy |-> FALSE]
Empty   == [kind |-> "empty",   imps |-> <<>>, tidy |-> FALSE]
Partial == [kind |-> "partial", imps |-> <<>>, tidy |-> FALSE]
DirNode == [kind |-> "dir",     imps |-> <<>>, tidy |-> FALSE]
NoBytes == [kind |-> "none",    imps |-> <<>>, tidy |-> FALSE]

Imp(name, path) == [name |-> name, path |-> path]

ImportPool ==
    { Imp(<<>>, <<1>>), Imp(<<3>>, <<1, 2>>), Imp(<<>>, <<2>>) }

RECURSIVE SeqsUpTo(_, _)
SeqsUpTo(S, n) ==
    IF n = 0 THEN {<<>>}
    ELSE LET shorter == SeqsUpTo(S, n - 1)
         IN  shorter \cup {Append(q, x) : q \in shorter, x \in S}

SourcePool ==
    {Src(imps, tidy) : imps \in SeqsUpTo(ImportPool, MaxImports),
                       tidy \in BOOLEAN} \cup {Bad}

Range(q) == {q[i] : i \in DOMAIN q}

\* sortSpecs of go/ast: by path, then by name
ImpLess(a, b) ==
    \/ StrLess(a.path, b.path)
    \/ (a.path = b.path /\ StrLess(a.name, b.name))

\* ast.SortImports: the specs in order, equal specs collapsed
SortImports(imps) ==
    LET S == Range(imps)
    IN  CHOOSE q \in [1..Cardinality(S) -> S] :
            /\ \A i, j \in DOMAIN q : i < j => ImpLess(q[i], q[j])
            /\ Range(q) = S

\* parser.ParseFile: the import specs of a source file
Parses(content) == content.kind = "src"
ParseFile(content) == content.imps

\* printer.Fprint followed by format.Source
FormatSource(file) == Src(SortImports(file), TRUE)


\* -------------------------------------------------------- the import rewrite
\* initReplaceRules: the rule map holds the one entry source -> dest
initReplaceRules(s, d) == [pre \in {s} |-> d]

EmptyRules == [pre \in {} |-> <<>>]

\* the orders in which `range replaceRules` may yield the map's keys
RuleOrders(rules) ==
    LET K == DOMAIN rules
    IN  {q \in [1..Cardinality(K) -> K] :
            \A i, j \in DOMAIN q : i # j => q[i] # q[j]}

\* lines 155-162: the replacers one import spec yields, rules taken in `order`
RECURSIVE MatchImport(_, _, _)
MatchImport(imp, rules, order) ==
    IF order = <<>> THEN <<>>
    ELSE LET pre  == Head(order)
             will == rules[pre]
             rest == MatchImport(imp, rules, Tail(order))
         IN  IF HasPrefix(imp.path, pre)
             THEN << [name    |-> imp.name,
                      oldPath |-> imp.path,
                      newPath |-> will \o TrimPrefix(imp.path, pre)] >> \o rest
             ELSE rest

\* lines 150-165: the replacers of all import specs, in source order
RECURSIVE Replacers(_, _, _)
Replacers(imps, rules, orders) ==
    IF imps = <<>> THEN <<>>
    ELSE MatchImport(Head(imps), rules, Head(orders))
             \o Replacers(Tail(imps), rules, Tail(orders))

\* astutil.DeleteNamedImport: removes every spec with this name and path
DeleteNamedImport(file, name, path) ==
    [deleted |-> \E i \in DOMAIN file :
                     file[i].name = name /\ file[i].path = path,
     file    |-> SelectSeq(file, LAMBDA s : ~(s.name = name /\ s.path = path))]

\* astutil.AddNamedImport: refuses a spec the file already has
AddNamedImport(file, name, path) ==
    IF \E i \in DOMAIN file : file[i].name = name /\ file[i].path = path
    THEN [added |-> FALSE, file |-> file]
    ELSE [added |-> TRUE,  file |-> Append(file, Imp(name, path))]

\* ApplyReplacers as it would be if the result of the deletion were ignored
RECURSIVE ApplyReplacersDeleteUnchecked(_, _)
ApplyReplacersDeleteUnchecked(file, rs) ==
    IF rs = <<>> THEN [errx |-> Nil, file |-> file]
    ELSE LET r   == Head(rs)
             del == DeleteNamedImport(file, r.name, r.oldPath)
             add == AddNamedImport(del.file, r.name, r.newPath)
         IN  IF ~add.added
             THEN [errx |-> "add new path fails", file |-> add.file]
             ELSE ApplyReplacersDeleteUnchecked(add.file, Tail(rs))

\* lines 167-177: apply the replacers in order, stopping at the first failure
RECURSIVE ApplyReplacers(_, _)
ApplyReplacers(file, rs) ==
    IF rs = <<>> THEN [errx |-> Nil, file |-> file]
    ELSE LET r   == Head(rs)
             del == DeleteNamedImport(file, r.name, r.oldPath)
             add == AddNamedImport(del.file, r.name, r.newPath)
         IN  IF ~del.deleted
             THEN [errx |-> "delete old path fails", file |-> del.file]
             ELSE IF ~add.added
             THEN [errx |-> "add new path fails", file |-> add.file]
             ELSE ApplyReplacers(add.file, Tail(rs))

\* ------------------------------------------------------------------- state
VARIABLES
    dir, source, dest,  \* the flags -d, -s, -r
    replaceRules,       \* the global rule map
    fs,                 \* entry -> [content, perm, exists]: the files on disk
    backups,            \* the backup files on disk: [name, content, perm]
    tmpSeq,             \* the temp names ioutil.TempFile has handed out
    pc,                 \* the statement the process is at
    idx,                \* the entry filepath.Walk is at
    exitCode,           \* the exit status (read when pc = "exit")
    perm, src, file, replacers, bs, backname, errx,  \* rewriteImport's locals
    logged,             \* entry -> diagnostics logged for it
    run,                \* which execution of the tool this is
    \* history, written but never read by the program:
    origFs,             \* the files as the current execution found them
    written,            \* entry -> the bytes handed to ioutil.WriteFile
    opened,             \* the entries rewriteImport has opened
    walkErr,            \* the traversal reported an error
    faulted,            \* a system or library call has failed
    failed,             \* the entries a step of rewriteImport failed for
    snap                \* the files as the first execution left them

vars == << dir, source, dest, replaceRules, fs, backups, tmpSeq, pc, idx,
           exitCode, perm, src, file, replacers, bs, backname, errx, logged,
           run, origFs, written, opened, walkErr, faulted, failed,
           snap >>

args   == << dir, source, dest >>
locals == << perm, src, file, replacers, bs, backname, errx >>
hist   == << origFs, written, opened, walkErr, faulted, failed, snap >>

File(content, mode) == [content |-> content, perm |-> mode, exists |-> TRUE]

\* a file that is not the varying one: untidy, importing <<1, 2>> and <<1>>
Fixed == Src(<< Imp(<<3>>, <<1, 2>>), Imp(<<>>, <<1>>) >>, FALSE)

NoBackup == << 0, 0 >>

InitLocals ==
    /\ perm = 0 /\ src = NoBytes /\ file = <<>> /\ replacers = <<>>
    /\ bs = NoBytes /\ backname = NoBackup /\ errx = Nil

Init ==
    /\ dir \in {<<>>, <<"d">>}
    /\ source \in {<<>>, <<1>>}
    /\ dest \in {<<>>, <<2>>, <<1, 2>>}
    /\ replaceRules = EmptyRules
    /\ \E c \in SourcePool, m \in {420, 493} :
         fs = [i \in Entries |->
                 IF Tree[i].isDir THEN File(DirNode, 493)
                 ELSE IF i = 2 THEN File(c, m)
                 ELSE File(Fixed, 420)]
    /\ backups = {} /\ tmpSeq = 0
    /\ pc = "main" /\ idx = 0 /\ exitCode = 0
    /\ InitLocals
    /\ logged = [i \in Entries |-> 0]
    /\ run = 1
    /\ origFs = fs
    /\ written = [i \in Entries |-> NoBytes]
    /\ opened = {} /\ walkErr = FALSE /\ faulted = FALSE /\ failed = {}
    /\ snap = fs


\* -------------------------------------------------------------------- main
\* lines 63-66: log the error and leave with status 255
exitOnErr == pc' = "exit" /\ exitCode' = 255

\* Main as it would be if it called initReplaceRules before the walk
MainInitReplaceRules ==
    /\ pc = "main"
    /\ IF dir = <<>> THEN exitOnErr /\ idx' = idx
       ELSE IF source = <<>> \/ dest = <<>> THEN exitOnErr /\ idx' = idx
       ELSE pc' = "walk" /\ idx' = 1 /\ exitCode' = exitCode
    /\ replaceRules' = initReplaceRules(source, dest)
    /\ UNCHANGED << args, fs, backups, tmpSeq, locals, logged, run, hist >>

\* lines 250-258: the checks of the flags; the rule map is left as declared
Main ==
    /\ pc = "main"
    /\ IF dir = <<>> THEN exitOnErr /\ idx' = idx
       ELSE IF source = <<>> \/ dest = <<>> THEN exitOnErr /\ idx' = idx
       ELSE pc' = "walk" /\ idx' = 1 /\ exitCode' = exitCode
    /\ UNCHANGED << args, replaceRules, fs, backups, tmpSeq, locals, logged,
                    run, hist >>

\* Skipped without the loop over codeSuffixSkipped
SkippedNoDenylist(e) ==
    \/ e.isDir
    \/ Contains(e.path, <<"vendor">>)
    \/ ~HasSuffix(Name(e.path), <<".go">>)

\* lines 73-90: the entries handle passes over
Skipped(e) ==
    \/ e.isDir
    \/ Contains(e.path, <<"vendor">>)
    \/ ~HasSuffix(Name(e.path), <<".go">>)
    \/ \E k \in DOMAIN codeSuffixSkipped :
           HasSuffix(Name(e.path), codeSuffixSkipped[k])

\* lines 69-71, 259-261: the traversal reports an error for the entry
HandleErr ==
    /\ pc = "walk" /\ idx <= Len(Tree)
    /\ exitOnErr
    /\ walkErr' = TRUE /\ faulted' = TRUE /\ failed' = failed
    /\ UNCHANGED << args, replaceRules, fs, backups, tmpSeq, idx, locals,
                    logged, run, origFs, written, opened, snap >>

\* lines 73-90: an entry that is passed over
HandleSkip ==
    /\ pc = "walk" /\ idx <= Len(Tree)
    /\ Skipped(Tree[idx])
    /\ idx' = idx + 1
    /\ UNCHANGED << args, replaceRules, fs, backups, tmpSeq, pc, exitCode,
                    locals, logged, run, hist >>

\* line 92: an entry handed to rewriteImport
HandleRewrite ==
    /\ pc = "walk" /\ idx <= Len(Tree)
    /\ ~Skipped(Tree[idx])
    /\ pc' = "open"
    /\ UNCHANGED << args, replaceRules, fs, backups, tmpSeq, idx, exitCode,
                    locals, logged, run, hist >>

\* lines 259-262: Walk returns nil and main returns
WalkDone ==
    /\ pc = "walk" /\ idx > Len(Tree)
    /\ pc' = "exit" /\ exitCode' = 0
    /\ UNCHANGED << args, replaceRules, fs, backups, tmpSeq, idx, locals,
                    logged, run, hist >>

\* ----------------------------------------------------------- rewriteImport
\* a failed step of rewriteImport: errx = err; return nil
Fails(e) ==
    /\ errx' = e /\ pc' = "ret" /\ faulted' = TRUE
    /\ failed' = failed \cup {idx}

\* lines 122-127
Open ==
    /\ pc = "open"
    /\ opened' = opened \cup {idx}
    /\ \/ pc' = "stat" /\ UNCHANGED << errx, faulted, failed >>
       \/ Fails("open")
    /\ UNCHANGED << args, replaceRules, fs, backups, tmpSeq, idx, exitCode,
                    perm, src, file, replacers, bs, backname, logged, run,
                    origFs, written, walkErr, snap >>

\* lines 129-135
Stat ==
    /\ pc = "stat"
    /\ \/ perm' = fs[idx].perm /\ pc' = "read" /\ UNCHANGED << errx, faulted, failed >>
       \/ Fails("stat") /\ perm' = perm
    /\ UNCHANGED << args, replaceRules, fs, backups, tmpSeq, idx, exitCode,
                    src, file, replacers, bs, backname, logged, run,
                    origFs, written, opened, walkErr, snap >>

\* lines 137-141
ReadAll ==
    /\ pc = "read"
    /\ \/ src' = fs[idx].content /\ pc' = "parse"
          /\ UNCHANGED << errx, faulted, failed >>
       \/ Fails("read") /\ src' = src
    /\ UNCHANGED << args, replaceRules, fs, backups, tmpSeq, idx, exitCode,
                    perm, file, replacers, bs, backname, logged, run,
                    origFs, written, opened, walkErr, snap >>

\* lines 143-148: ParseFile reads the file at path itself (its src is nil)
Parse ==
    /\ pc = "parse"
    /\ \/ /\ Parses(fs[idx].content)
          /\ file' = ParseFile(fs[idx].content) /\ pc' = "match"
          /\ UNCHANGED << errx, faulted, failed >>
       \/ /\ ~Parses(fs[idx].content)
          /\ errx' = "parse" /\ pc' = "ret" /\ failed' = failed \cup {idx}
          /\ UNCHANGED << file, faulted >>
       \/ Fails("parse") /\ file' = file
    /\ UNCHANGED << args, replaceRules, fs, backups, tmpSeq, idx, exitCode,
                    perm, src, replacers, bs, backname, logged, run,
                    origFs, written, opened, walkErr, snap >>

\* lines 150-177: collect the replacers, then delete and add import by import
Rewrite ==
    /\ pc = "match"
    /\ \E orders \in [1..Len(file) -> RuleOrders(replaceRules)] :
         LET rs  == Replacers(file, replaceRules, orders)
             res == ApplyReplacers(file, rs)
         IN  /\ replacers' = rs
             /\ file' = res.file
             /\ errx' = res.errx
             /\ pc' = IF res.errx = Nil THEN "print" ELSE "ret"
             /\ failed' = IF res.errx = Nil THEN failed
                        ELSE failed \cup {idx}
    /\ UNCHANGED << args, replaceRules, fs, backups, tmpSeq, idx, exitCode,
                    perm, src, bs, backname, logged, run, origFs, written,
                    opened, walkErr, faulted, snap >>

\* lines 179-184
Fprint ==
    /\ pc = "print"
    /\ \/ pc' = "format" /\ UNCHANGED << errx, faulted, failed >>
       \/ Fails("print")
    /\ UNCHANGED << args, replaceRules, fs, backups, tmpSeq, idx, exitCode,
                    perm, src, file, replacers, bs, backname, logged, run,
                    origFs, written, opened, walkErr, snap >>

\* lines 186-190
Format ==
    /\ pc = "format"
    /\ \/ bs' = FormatSource(file) /\ pc' = "tempfile"
          /\ UNCHANGED << errx, faulted, failed >>
       \/ Fails("format") /\ bs' = bs
    /\ UNCHANGED << args, replaceRules, fs, backups, tmpSeq, idx, exitCode,
                    perm, src, file, replacers, backname, logged, run,
                    origFs, written, opened, walkErr, snap >>


\* -------------------------------------------------------------- backupFile
Backup(n) == CHOOSE b \in backups : b.name = n

\* the backup named n with one field changed
SetBackup(n, c, m) ==
    (backups \ {Backup(n)}) \cup {[name |-> n, content |-> c, perm |-> m]}

\* lines 216-221: a new, empty file beside the target, under a fresh name
TempFile ==
    /\ pc = "tempfile"
    /\ \/ /\ tmpSeq' = tmpSeq + 1
          /\ backname' = << idx, tmpSeq + 1 >>
          /\ backups' = backups \cup
                 {[name |-> << idx, tmpSeq + 1 >>, content |-> Empty,
                   perm |-> TempFileMode]}
          /\ pc' = "chmod"
          /\ UNCHANGED << errx, faulted, failed >>
       \/ Fails("tempfile") /\ UNCHANGED << tmpSeq, backname, backups >>
    /\ UNCHANGED << args, replaceRules, fs, idx, exitCode, perm, src, file,
                    replacers, bs, logged, run, origFs, written, opened,
                    walkErr, snap >>

\* Chmod as it would be if the backup kept the mode TempFile gave it
ChmodSkipped ==
    /\ pc = "chmod"
    /\ pc' = "bwrite"
    /\ UNCHANGED << args, replaceRules, fs, backups, tmpSeq, idx, exitCode,
                    locals, logged, run, hist >>

\* lines 223-230: on failure the backup is closed and removed, the error of
\* the removal dropped
Chmod ==
    /\ pc = "chmod"
    /\ IF chmodSupported
       THEN \/ /\ backups' = SetBackup(backname, Backup(backname).content, perm)
               /\ pc' = "bwrite"
               /\ UNCHANGED << errx, faulted, failed >>
            \/ /\ Fails("chmod")
               /\ \/ backups' = backups \ {Backup(backname)}
                  \/ backups' = backups
       ELSE pc' = "bwrite" /\ UNCHANGED << backups, errx, faulted, failed >>
    /\ UNCHANGED << args, replaceRules, fs, tmpSeq, idx, exitCode, perm, src,
                    file, replacers, bs, backname, logged, run, origFs,
                    written, opened, walkErr, snap >>

\* BackupWrite as it would be if the new bytes were written to the backup
BackupWriteNewBytes ==
    /\ pc = "bwrite"
    /\ \/ /\ backups' = SetBackup(backname, bs, Backup(backname).perm)
          /\ pc' = "bclose"
          /\ UNCHANGED << errx, faulted, failed >>
       \/ /\ Fails("write backup")
          /\ \E c \in {Empty, Partial} :
               backups' = SetBackup(backname, c, Backup(backname).perm)
    /\ UNCHANGED << args, replaceRules, fs, tmpSeq, idx, exitCode, perm, src,
                    file, replacers, bs, backname, logged, run, origFs,
                    written, opened, walkErr, snap >>

\* lines 232-234
BackupWrite ==
    /\ pc = "bwrite"
    /\ \/ /\ backups' = SetBackup(backname, src, Backup(backname).perm)
          /\ pc' = "bclose"
          /\ UNCHANGED << errx, faulted, failed >>
       \/ /\ Fails("write backup")
          /\ \E c \in {Empty, Partial} :
               backups' = SetBackup(backname, c, Backup(backname).perm)
    /\ UNCHANGED << args, replaceRules, fs, tmpSeq, idx, exitCode, perm, src,
                    file, replacers, bs, backname, logged, run, origFs,
                    written, opened, walkErr, snap >>

\* lines 236-240
BackupClose ==
    /\ pc = "bclose"
    /\ \/ pc' = "wopen" /\ UNCHANGED << errx, faulted, failed >>
       \/ Fails("close backup")
    /\ UNCHANGED << args, replaceRules, fs, backups, tmpSeq, idx, exitCode,
                    perm, src, file, replacers, bs, backname, logged, run,
                    origFs, written, opened, walkErr, snap >>

\* ------------------------------------------------ the overwrite and after
\* line 200, ioutil.WriteFile's OpenFile(O_WRONLY|O_CREATE|O_TRUNC, perm):
\* an existing file is emptied and keeps its mode
WriteFileOpen ==
    /\ pc = "wopen"
    /\ written' = [written EXCEPT ![idx] = bs]
    /\ \/ /\ fs' = [fs EXCEPT ![idx] =
                      [content |-> Empty,
                       perm    |-> IF fs[idx].exists THEN fs[idx].perm ELSE perm,
                       exists  |-> TRUE]]
          /\ pc' = "wwrite"
          /\ UNCHANGED << errx, faulted, failed >>
       \/ /\ errx' = "write" /\ pc' = "rename" /\ faulted' = TRUE
          /\ failed' = failed \cup {idx}
          /\ fs' = fs
    /\ UNCHANGED << args, replaceRules, backups, tmpSeq, idx, exitCode, perm,
                    src, file, replacers, bs, backname, logged, run, origFs,
                    opened, walkErr, snap >>

\* line 200, ioutil.WriteFile's Write and Close: a failed Write leaves none
\* or some of the bytes, a failed Close leaves them all
WriteFileWrite ==
    /\ pc = "wwrite"
    /\ \/ /\ fs' = [fs EXCEPT ![idx].content = bs]
          /\ pc' = "remove"
          /\ UNCHANGED << errx, faulted, failed >>
       \/ /\ \E c \in {Empty, Partial, bs} :
               fs' = [fs EXCEPT ![idx].content = c]
          /\ errx' = "write" /\ pc' = "rename" /\ faulted' = TRUE
          /\ failed' = failed \cup {idx}
    /\ UNCHANGED << args, replaceRules, backups, tmpSeq, idx, exitCode, perm,
                    src, file, replacers, bs, backname, logged, run, origFs,
                    written, opened, walkErr, snap >>

\* lines 201-203: the backup is renamed onto the target, the error of the
\* rename dropped
Rename ==
    /\ pc = "rename"
    /\ \/ /\ fs' = [fs EXCEPT ![idx] =
                      File(Backup(backname).content, Backup(backname).perm)]
          /\ backups' = backups \ {Backup(backname)}
       \/ UNCHANGED << fs, backups >>
    /\ pc' = "ret"
    /\ UNCHANGED << args, replaceRules, tmpSeq, idx, exitCode, locals, logged,
                    run, hist >>

\* Remove as it would be if the error of os.Remove were dropped
RemoveErrDropped ==
    /\ pc = "remove"
    /\ \/ /\ backups' = backups \ {Backup(backname)}
          /\ UNCHANGED << faulted, failed >>
       \/ /\ faulted' = TRUE
          /\ failed' = failed \cup {idx}
          /\ backups' = backups
    /\ pc' = "ret"
    /\ UNCHANGED << args, replaceRules, fs, tmpSeq, idx, exitCode, locals,
                    logged, run, origFs, written, opened, walkErr, snap >>

\* lines 206-210
Remove ==
    /\ pc = "remove"
    /\ \/ /\ backups' = backups \ {Backup(backname)}
          /\ UNCHANGED << errx, faulted, failed >>
       \/ /\ errx' = "remove" /\ faulted' = TRUE
          /\ failed' = failed \cup {idx}
          /\ backups' = backups
    /\ pc' = "ret"
    /\ UNCHANGED << args, replaceRules, fs, tmpSeq, idx, exitCode, perm, src,
                    file, replacers, bs, backname, logged, run, origFs,
                    written, opened, walkErr, snap >>

\* rewriteImport as it would be if it returned its error
rewriteImportReturnsErrx(e) == e

\* the value rewriteImport returns when its errx is e: nil on every path
rewriteImportReturn(e) == Nil

\* Return as it would be if handle answered a failed file with
\* filepath.SkipDir, which makes Walk pass over the rest of the directory
ReturnSkipDir ==
    /\ pc = "ret"
    /\ logged' = IF errx # Nil THEN [logged EXCEPT ![idx] = @ + 1] ELSE logged
    /\ pc' = "walk" /\ exitCode' = exitCode
    /\ idx' = IF errx # Nil THEN Len(Tree) + 1 ELSE idx + 1
    /\ perm' = 0 /\ src' = NoBytes /\ file' = <<>> /\ replacers' = <<>>
    /\ bs' = NoBytes /\ backname' = NoBackup /\ errx' = Nil
    /\ UNCHANGED << args, replaceRules, fs, backups, tmpSeq, run, hist >>

\* lines 116-120, 92-96: the deferred diagnostic, the return to handle and
\* handle's return to Walk
Return ==
    /\ pc = "ret"
    /\ logged' = IF errx # Nil THEN [logged EXCEPT ![idx] = @ + 1] ELSE logged
    /\ IF rewriteImportReturn(errx) # Nil
       THEN exitOnErr /\ idx' = idx
       ELSE pc' = "walk" /\ idx' = idx + 1 /\ exitCode' = exitCode
    /\ perm' = 0 /\ src' = NoBytes /\ file' = <<>> /\ replacers' = <<>>
    /\ bs' = NoBytes /\ backname' = NoBackup /\ errx' = Nil
    /\ UNCHANGED << args, replaceRules, fs, backups, tmpSeq, run, hist >>

\* --------------------------------------------------------- specifications
\* the tool is started again, with the same flags, on the tree that a run
\* which met no failure has left
Rerun ==
    /\ pc = "exit" /\ run < MaxRuns
    /\ exitCode = 0 /\ ~faulted
    /\ run' = run + 1
    /\ pc' = "main" /\ idx' = 0 /\ exitCode' = 0
    /\ replaceRules' = EmptyRules
    /\ logged' = [i \in Entries |-> 0]
    /\ origFs' = fs
    /\ written' = [i \in Entries |-> NoBytes]
    /\ opened' = {} /\ walkErr' = FALSE /\ failed' = {}
    /\ snap' = IF run = 1 THEN fs ELSE snap
    /\ UNCHANGED << args, fs, backups, tmpSeq, locals, faulted >>

Next ==
    \/ Main \/ HandleErr \/ HandleSkip \/ HandleRewrite \/ WalkDone
    \/ Open \/ Stat \/ ReadAll \/ Parse \/ Rewrite \/ Fprint \/ Format
    \/ TempFile \/ Chmod \/ BackupWrite \/ BackupClose
    \/ WriteFileOpen \/ WriteFileWrite \/ Rename \/ Remove \/ Return

Spec == Init /\ [][Next]_vars

\* rewriteImport under a rule map of two rules: the map is an input of
\* rewriteImport, drawn here from the maps over the prefixes <<1>>, <<1, 2>>
RulePool == [{<<1>>, <<1, 2>>} -> {<<1>>, <<2>>}]

InitRules ==
    /\ dir = <<"d">> /\ source = <<1>> /\ dest = <<2>>
    /\ replaceRules \in RulePool
    /\ \E c \in SourcePool, m \in {420, 493} :
         fs = [i \in Entries |->
                 IF Tree[i].isDir THEN File(DirNode, 493)
                 ELSE IF i = 2 THEN File(c, m)
                 ELSE File(Fixed, 420)]
    /\ backups = {} /\ tmpSeq = 0
    /\ pc = "main" /\ idx = 0 /\ exitCode = 0
    /\ InitLocals
    /\ logged = [i \in Entries |-> 0]
    /\ run = 1
    /\ origFs = fs
    /\ written = [i \in Entries |-> NoBytes]
    /\ opened = {} /\ walkErr = FALSE /\ faulted = FALSE /\ failed = {}
    /\ snap = fs

SpecRules == InitRules /\ [][Next]_vars

NextTwice == Next \/ Rerun

SpecTwice == Init /\ [][NextTwice]_vars


\* ------------------------------------------------------------------ claims
\* the entries handle hands to rewriteImport
Candidates == {i \in Entries : ~Skipped(Tree[i])}

\* the entries rewriteImport has returned for in this execution
Processed == {i \in Candidates : i < idx}

ArgsValid == dir # <<>> /\ source # <<>> /\ dest # <<>>

BackupsOf(i) == {b \in backups : b.name[1] = i}

\* the content is the one the execution found or the one it formatted
OriginalOrNew(i) ==
    \/ fs[i].content = origFs[i].content
    \/ (written[i] # NoBytes /\ fs[i].content = written[i])

\* C1: at every point of a run every file exists at its path and holds
\* either its complete original content or its complete new content.
C1_TargetNeverTruncated ==
    \A i \in Entries : fs[i].exists /\ OriginalOrNew(i)

\* C2: when rewriteImport returns after a failed overwrite, the target has
\* the content it had before the run and no backup of it is left.
C2_RestoredAfterFailedOverwrite ==
    (pc = "ret" /\ errx = "write") =>
        /\ fs[idx].content = origFs[idx].content
        /\ BackupsOf(idx) = {}

\* C3: when rewriteImport returns, whatever step failed, the file holds its
\* original or its fully rewritten content; and after a failure of parsing,
\* of the deletion or insertion of an import or of formatting nothing was
\* written: the target is unchanged and no backup exists.
C3_PerFileAtomicity ==
    pc = "ret" =>
        /\ OriginalOrNew(idx)
        /\ errx \in {"parse", "delete old path fails", "add new path fails",
                     "print", "format"} =>
               /\ fs[idx] = origFs[idx]
               /\ written[idx] = NoBytes
               /\ BackupsOf(idx) = {}

\* C4: a failure on one file never ends the run: the walk ends before its
\* last entry only when the traversal reported an error, and every candidate
\* the walk has passed was handed to rewriteImport.
C4_PerFileFailureNeverStopsRun ==
    /\ (pc = "exit" /\ ArgsValid /\ ~walkErr) =>
           (idx > Len(Tree) /\ Candidates \subseteq opened)
    /\ pc = "walk" => Processed \subseteq opened

C4_Witness ==
    /\ pc = "exit" /\ exitCode = 0
    /\ logged[2] > 0 /\ 8 \in opened

\* C5: after a file was processed without error, every import of it whose
\* path began with the source prefix has the destination prefix followed by
\* the rest of its path, under the same alias.
C5_MatchingImportsRewritten ==
    (pc = "ret" /\ errx = Nil /\ ~faulted) =>
        \A k \in DOMAIN origFs[idx].content.imps :
            LET imp == origFs[idx].content.imps[k]
            IN  HasPrefix(imp.path, source) =>
                    Imp(imp.name, dest \o TrimPrefix(imp.path, source))
                        \in Range(fs[idx].content.imps)

\* C6: a processed file none of whose imports begins with the source prefix
\* has after the run exactly the bytes it had before, canonical or not.
C6_NoMatchNoChange ==
    \A i \in Processed :
        (/\ ~faulted
         /\ \A k \in DOMAIN origFs[i].content.imps :
                ~HasPrefix(origFs[i].content.imps[k].path, source)) =>
            fs[i].content = origFs[i].content

\* C7: a second run of the tool with the same rule leaves every file with
\* the content and the permissions the first run left.
C7_Idempotent ==
    (run >= 2 /\ pc = "exit" /\ exitCode = 0 /\ ~faulted) =>
        /\ fs = snap
        /\ backups = {}

\* both runs rewrote both candidates, and the first changed z.go
C7_Witness ==
    /\ run >= 2 /\ pc = "exit" /\ exitCode = 0 /\ ~faulted
    /\ snap[8] # File(Fixed, 420)
    /\ written[8] = snap[8].content
    /\ written[2] # NoBytes

\* a path that has the directory vendor among its elements
InVendorDir(path) ==
    \E k \in DOMAIN path :
        /\ path[k] = "vendor"
        /\ (k = 1 \/ path[k - 1] = "/")
        /\ (k < Len(path) /\ path[k + 1] = "/")

\* the entries the denylist names: directories, files under vendor, files
\* that are no .go file, generated files
Denied(e) ==
    \/ e.isDir
    \/ InVendorDir(e.path)
    \/ ~HasSuffix(Name(e.path), <<".go">>)
    \/ \E s \in { <<"pb", ".go">>, <<"pb", ".gopherjs", ".go">>,
                  <<"stateGen", ".go">>, <<"reactGen", ".go">> } :
           HasSuffix(Name(e.path), s)

\* C8: a directory, a file under vendor, a file that is no .go file and a
\* generated file are never opened by rewriteImport and never modified.
C8_DenylistEnforced ==
    \A i \in Entries :
        Denied(Tree[i]) => (i \notin opened /\ fs[i] = origFs[i])

C8_Witness ==
    /\ pc = "exit" /\ exitCode = 0
    /\ opened = {2, 8}
    /\ fs[2] # origFs[2] /\ fs[8] # origFs[8]
    /\ \E i \in Entries : Denied(Tree[i]) /\ ~Tree[i].isDir
                          /\ HasPrefix(fs[i].content.imps[2].path, source)

\* C9: at its path every file has the permission bits it had before the
\* run, after a successful rewrite and after a restore from the backup.
C9_PermissionsPreserved ==
    \A i \in Entries : fs[i].exists => fs[i].perm = origFs[i].perm

\* a restore: the overwrite failed and the backup was renamed onto the target
C9_Witness ==
    /\ pc = "ret" /\ errx = "write"
    /\ backname # NoBackup /\ BackupsOf(idx) = {}
    /\ written[idx] # NoBytes
    /\ fs[idx].perm # TempFileMode

\* C10: the exit status is non-zero only if a required flag is empty or the
\* traversal reported an error, whatever failed on the files.
C10_ExitStatus ==
    pc = "exit" =>
        /\ exitCode \in {0, 255}
        /\ exitCode # 0 => (~ArgsValid \/ walkErr)

C10_Witness ==
    /\ pc = "exit" /\ exitCode = 0
    /\ logged[2] > 0 /\ logged[8] > 0


\* C11: a candidate rewriteImport has returned for has exactly one
\* diagnostic if a step of its processing failed and none otherwise; an
\* entry that was passed over has none.
C11_OneDiagnosticPerFailure ==
    \A i \in Entries :
        logged[i] = IF i \in Processed /\ i \in failed THEN 1 ELSE 0

C11_Witness ==
    /\ pc = "exit" /\ exitCode = 0
    /\ 2 \in failed /\ logged[2] = 1
    /\ 8 \in opened /\ 8 \notin failed /\ logged[8] = 0
    /\ logged[3] = 0

\* C12: an entry the walk has passed was handed to rewriteImport exactly if
\* it is a regular file with no vendor directory in its path and a name
\* that ends in .go and in none of the generated-code suffixes.
C12_SelectionExact ==
    \A i \in Entries :
        (i < idx /\ pc \in {"walk", "exit"}) =>
            (i \in opened <=> ~Denied(Tree[i]))

\* the statements of rewriteImport
RewritePcs ==
    {"open", "stat", "read", "parse", "match", "print", "format", "tempfile",
     "chmod", "bwrite", "bclose", "wopen", "wwrite", "rename", "remove", "ret"}

\* C13: while a candidate is processed the rule map has exactly the one
\* entry source -> dest.
C13_OneRuleActive ==
    pc \in RewritePcs => replaceRules = initReplaceRules(source, dest)


\* the backup of entry i is on disk with i's original bytes and mode
BackupComplete(i) ==
    \E b \in backups :
        /\ b.name = backname /\ b.name[1] = i
        /\ b.content = origFs[i].content
        /\ b.perm = origFs[i].perm

\* a step changes a file only in the overwrite or the restore, which come
\* after the backup was closed, and only with the complete backup on disk
WriteAfterBackup ==
    \A i \in Entries :
        fs'[i] # fs[i] =>
            /\ i = idx /\ pc \in {"wopen", "wwrite", "rename"}
            /\ BackupComplete(i)

\* the backups a step deletes (the restore moves its backup, it deletes none)
Deleted ==
    IF pc = "rename" THEN {}
    ELSE {b \in backups : \A b2 \in backups' : b2.name # b.name}

\* C14 as claimed: a file is first written only after its backup was
\* created, filled with the original bytes, given the original mode and
\* closed; and a backup is deleted only after the overwrite succeeded.
C14_WriteOrdering ==
    [][ /\ WriteAfterBackup
        /\ \A b \in Deleted :
               pc = "remove" /\ fs[idx].content = bs ]_vars

\* C14 as amended: the same, but a backup that is still empty is also
\* deleted when its Chmod has failed.
C14_WriteOrderingAmended ==
    [][ /\ WriteAfterBackup
        /\ \A b \in Deleted :
               \/ pc = "remove" /\ fs[idx].content = bs
               \/ pc = "chmod" /\ b.content = Empty ]_vars

\* the overwrite succeeded and the backup was deleted
C14_Witness ==
    /\ pc = "ret" /\ errx = Nil
    /\ backname # NoBackup /\ BackupsOf(idx) = {}
    /\ written[idx] # NoBytes /\ fs[idx].content = written[idx]
    /\ fs[idx] # origFs[idx]


\* an import of entry i begins with the prefix of each of the two rules
BothMatch(i) ==
    /\ Cardinality(DOMAIN replaceRules) = 2
    /\ \E k \in DOMAIN origFs[i].content.imps :
           \A pre \in DOMAIN replaceRules :
               HasPrefix(origFs[i].content.imps[k].path, pre)

\* the pending list has two substitutions of one import
BothAppended ==
    \E j, k \in DOMAIN replacers :
        /\ j # k
        /\ replacers[j].oldPath = replacers[k].oldPath
        /\ replacers[j].name = replacers[k].name

\* nothing of the file was written: no backup, no overwrite
NothingWritten ==
    /\ fs[idx] = origFs[idx]
    /\ written[idx] = NoBytes
    /\ BackupsOf(idx) = {}

NoIdentityRule == \A pre \in DOMAIN replaceRules : replaceRules[pre] # pre

C16_NoBackupLeftBehind ==
    pc = "ret" => BackupsOf(idx) = {}

====
